---- MODULE Spec2Model ----
(***************************************************************************)
(* Streaming hash engines of dgbo/hashes: MD2, MD4, MD5, RIPEMD-160/320,   *)
(* Streebog-256/512 and Whirlpool cores driven through the block buffer.   *)
(*                                                                         *)
(* Machine words are kept at their width as little-endian sequences of     *)
(* 16-bit limbs (u32 = 2 limbs, u64 = 4 limbs), so that wrap-around,       *)
(* carries and byte serialisation are computed and not assumed.            *)
(*                                                                         *)
(* The round functions of the compression engines are not interpreted: a   *)
(* chaining value is the term [iv, prior, absorbed], the initial value and *)
(* the sequence of (key, block) pairs compressed into it.  Two chaining    *)
(* values that are equal as terms are equal in every implementation of the *)
(* round functions; everything around the round functions (buffering,      *)
(* padding, counters, length fields, digest projection) is concrete.       *)
(***************************************************************************)
EXTENDS Integers, Sequences, FiniteSets, TLC

(***************************************************************************)
(* Bounds of the model                                                     *)
(***************************************************************************)
\* a message is at most MaxBlocks whole blocks plus MaxTail bytes
MaxBlocks == 2
MaxTail == 2
\* number of update calls and of reset calls followed along one behaviour
MaxUpdates == 3
MaxResets == 1

(***************************************************************************)
(* Fixed-width words                                                       *)
(***************************************************************************)
Byte == 256
Limb == Byte * Byte

Zeros(n) == [i \in 1..n |-> 0]
Ones(n) == [i \in 1..n |-> 1]

\* a small natural number as a word of `limbs` limbs
RECURSIVE Word(_, _)
Word(v, limbs) ==
    IF limbs = 0 THEN <<>> ELSE <<v % Limb>> \o Word(v \div Limb, limbs - 1)

\* a + b + c over equally long words: the wrapped sum and the carry out
RECURSIVE AddFrom(_, _, _, _)
AddFrom(a, b, i, c) ==
    IF i > Len(a) THEN [w |-> <<>>, c |-> c]
    ELSE LET t == a[i] + b[i] + c
             r == AddFrom(a, b, i + 1, t \div Limb)
         IN  [w |-> <<t % Limb>> \o r.w, c |-> r.c]

AddCarry(a, b, c) == AddFrom(a, b, 1, c)

\* a * k for a small constant k: the wrapped product and the part shifted out
RECURSIVE MulFrom(_, _, _, _)
MulFrom(a, k, i, c) ==
    IF i > Len(a) THEN [w |-> <<>>, c |-> c]
    ELSE LET t == a[i] * k + c
             r == MulFrom(a, k, i + 1, t \div Limb)
         IN  [w |-> <<t % Limb>> \o r.w, c |-> r.c]

MulSmall(a, k) == MulFrom(a, k, 1, 0)

\* u64::wrapping_add, u64::wrapping_mul
wrapping_add(a, b) == AddCarry(a, b, 0).w
wrapping_mul(a, k) == MulSmall(a, k).w

\* integer to_le_bytes / to_be_bytes of a word
RECURSIVE to_le_bytes(_)
to_le_bytes(w) ==
    IF w = <<>> THEN <<>>
    ELSE <<w[1] % Byte, w[1] \div Byte>> \o to_le_bytes(Tail(w))

RECURSIVE Reverse(_)
Reverse(s) == IF s = <<>> THEN <<>> ELSE Reverse(Tail(s)) \o <<s[1]>>

to_be_bytes(w) == Reverse(to_le_bytes(w))

\* chunks_exact_mut(k).zip(words): the words serialised one after another
RECURSIVE Serialize(_, _)
Serialize(words, be) ==
    IF words = <<>> THEN <<>>
    ELSE (IF be THEN to_be_bytes(words[1]) ELSE to_le_bytes(words[1]))
         \o Serialize(Tail(words), be)

(***************************************************************************)
(* Block buffer (digest::block_buffer::BlockBuffer, eager flavour): a      *)
(* block-sized byte array and a fill position.  Bytes at and after the     *)
(* position are stale.                                                     *)
(***************************************************************************)
\* overwrite buffer[at+1 .. at+Len(bytes)] (0-based range at .. at+len)
copy_from_slice(buffer, at, bytes) ==
    [i \in 1..Len(buffer) |->
        IF i > at /\ i <= at + Len(bytes) THEN bytes[i - at] ELSE buffer[i]]

\* to_blocks: the whole blocks of the input
to_blocks(input, bs) ==
    [k \in 1..(Len(input) \div bs) |-> SubSeq(input, (k - 1) * bs + 1, k * bs)]

leftover(input, bs) ==
    SubSeq(input, (Len(input) \div bs) * bs + 1, Len(input))

\* BlockBuffer::digest_blocks: the new buffer and the slices of blocks
\* handed to the callback, one entry per callback invocation
digest_blocks(buf, input) ==
    LET bs == Len(buf.buffer)
        pos == buf.pos
        r == bs - pos
        n == Len(input)
    IN  IF n < r
        THEN [buffer |-> copy_from_slice(buf.buffer, pos, input),
              pos |-> pos + n,
              calls |-> <<>>]
        ELSE LET left == SubSeq(input, 1, r)
                 right == SubSeq(input, r + 1, n)
                 full == copy_from_slice(buf.buffer, pos, left)
                 buffer1 == IF pos # 0 THEN full ELSE buf.buffer
                 input1 == IF pos # 0 THEN right ELSE input
                 first == IF pos # 0 THEN << <<full>> >> ELSE <<>>
                 blocks == to_blocks(input1, bs)
                 rest == IF blocks # <<>> THEN <<blocks>> ELSE <<>>
                 tail == leftover(input1, bs)
             IN  [buffer |-> copy_from_slice(buffer1, 0, tail),
                  pos |-> Len(tail),
                  calls |-> first \o rest]

\* BlockBuffer::digest_pad: 0x80, zeros and the suffix at the end of a
\* block; the blocks handed to the callback, in order
digest_pad(buf, suffix) ==
    LET bs == Len(buf.buffer)
        pos == buf.pos
        marked == [i \in 1..bs |->
                     IF i <= pos THEN buf.buffer[i]
                     ELSE IF i = pos + 1 THEN 128 ELSE 0]
        n == bs - Len(suffix)
    IN  IF bs - pos - 1 < Len(suffix)
        THEN [buffer |-> marked, pos |-> 0,
              blocks |-> <<marked, copy_from_slice(Zeros(bs), n, suffix)>>]
        ELSE LET last == copy_from_slice(marked, n, suffix)
             IN  [buffer |-> last, pos |-> 0, blocks |-> <<last>>]

\* BlockBuffer::len64_padding_le
len64_padding_le(buf, data_len) == digest_pad(buf, to_le_bytes(data_len))

\* BlockBuffer::pad_with::<Pkcs7>: n bytes of value n up to the block end
pad_with_Pkcs7(buf) ==
    LET bs == Len(buf.buffer)
        n == bs - buf.pos
        block == [i \in 1..bs |-> IF i <= buf.pos THEN buf.buffer[i] ELSE n]
    IN  [buffer |-> block, pos |-> 0, block |-> block]

\* BlockBuffer::pad_with::<ZeroPadding>
pad_with_ZeroPadding(buf) ==
    LET bs == Len(buf.buffer)
        block == [i \in 1..bs |-> IF i <= buf.pos THEN buf.buffer[i] ELSE 0]
    IN  [buffer |-> block, pos |-> 0, block |-> block]

\* BlockBuffer::default and BlockBuffer::reset
NewBuffer(bs) == [buffer |-> Zeros(bs), pos |-> 0]
reset_buffer(buf) == [buffer |-> buf.buffer, pos |-> 0]

(***************************************************************************)
(* Chaining values                                                         *)
(***************************************************************************)
\* the chaining value reached from `iv` after `prior` blocks of an earlier
\* part of the stream (0 for a fresh hasher) and the compressions listed
Chain(iv, prior) == [iv |-> iv, prior |-> prior, absorbed |-> <<>>]

\* one application of a compression function: key N (Streebog only), a
\* block m of bytes or, for a block that is itself a computed value, v
Absorb(chain, N, m, v) ==
    [chain EXCEPT !.absorbed = Append(@, [N |-> N, m |-> m, v |-> v])]

U64_0 == Word(0, 4)

(***************************************************************************)
(* MD4                                                                     *)
(***************************************************************************)
\* S = [0x67452301, 0xEFCDAB89, 0x98BADCFE, 0x10325476]
Md4_S == << <<8961, 26437>>, <<43913, 61389>>, <<56574, 39098>>, <<21622, 4146>> >>

Md4Core_default == [blocks |-> U64_0, s |-> Chain(Md4_S, U64_0)]

Md4Core_compress(core, input) ==
    [core EXCEPT !.s = Absorb(@, <<>>, input, <<>>)]

RECURSIVE Md4Core_compress_all(_, _)
Md4Core_compress_all(core, blocks) ==
    IF blocks = <<>> THEN core
    ELSE Md4Core_compress_all(Md4Core_compress(core, blocks[1]), Tail(blocks))

\* faulty variant: the counter advances by one per call, not per block
Md4Core_update_blocks_PerCall(core, blocks, checks) ==
    [core |-> Md4Core_compress_all(
                 [core EXCEPT !.blocks = wrapping_add(@, Word(1, 4))],
                 blocks),
     fault |-> FALSE]

Md4Core_update_blocks(core, blocks, checks) ==
    [core |-> Md4Core_compress_all(
                 [core EXCEPT !.blocks = wrapping_add(@, Word(Len(blocks), 4))],
                 blocks),
     fault |-> FALSE]

\* 8 * (pos + bs * count) with the plain operators: the wrapped value and
\* whether any of the three operations overflowed u64
PlainBitLen(count, pos, bs) ==
    LET m == MulSmall(count, bs)
        a == AddCarry(Word(pos, 4), m.w, 0)
        t == MulSmall(a.w, 8)
    IN  [v |-> t.w, overflow |-> m.c # 0 \/ a.c # 0 \/ t.c # 0]

\* let len = 8 * (buffer.get_pos() as u64 + bs * self.blocks)
Md4Core_len(core, pos) == PlainBitLen(core.blocks, pos, 64)

Md4Core_finalize_fixed_core(core, buf, checks) ==
    LET len == Md4Core_len(core, buf.pos)
        pad == len64_padding_le(buf, len.v)
        done == Md4Core_compress_all(core, pad.blocks)
    IN  IF checks /\ len.overflow
        THEN [core |-> core, buf |-> buf, out |-> <<>>, fault |-> TRUE]
        ELSE [core |-> done,
              buf |-> [buffer |-> pad.buffer, pos |-> pad.pos],
              out |-> <<[of |-> done.s, from |-> 0, to |-> 16, be |-> FALSE]>>,
              fault |-> FALSE]

(***************************************************************************)
(* MD4: the value of a chaining value.  u32 words are pairs of limbs.      *)
(***************************************************************************)
\* 2^k
RECURSIVE Pow2(_)
Pow2(k) == IF k = 0 THEN 1 ELSE 2 * Pow2(k - 1)

\* the operators &, | and ^ on the low `bits` bits of x and y: bit by bit,
\* the upper and the lower half of the bits apart
RECURSIVE BitAnd(_, _, _)
BitAnd(x, y, bits) ==
    IF bits = 1 THEN x * y
    ELSE LET half == Pow2(bits \div 2)
         IN  BitAnd(x % half, y % half, bits \div 2)
             + half * BitAnd(x \div half, y \div half, bits \div 2)

RECURSIVE BitOr(_, _, _)
BitOr(x, y, bits) ==
    IF bits = 1 THEN (IF x + y > 0 THEN 1 ELSE 0)
    ELSE LET half == Pow2(bits \div 2)
         IN  BitOr(x % half, y % half, bits \div 2)
             + half * BitOr(x \div half, y \div half, bits \div 2)

RECURSIVE BitXor(_, _, _)
BitXor(x, y, bits) ==
    IF bits = 1 THEN (x + y) % 2
    ELSE LET half == Pow2(bits \div 2)
         IN  BitXor(x % half, y % half, bits \div 2)
             + half * BitXor(x \div half, y \div half, bits \div 2)

\* x & y, x | y, x ^ y and !x on u32
And32(x, y) == [i \in 1..2 |-> BitAnd(x[i], y[i], 16)]
Or32(x, y) == [i \in 1..2 |-> BitOr(x[i], y[i], 16)]
Xor32(x, y) == [i \in 1..2 |-> BitXor(x[i], y[i], 16)]
Not32(x) == [i \in 1..2 |-> Limb - 1 - x[i]]

\* u32::wrapping_add
wrapping_add32(x, y) ==
    LET lo == x[1] + y[1]
    IN  <<lo % Limb, (x[2] + y[2] + (lo \div Limb)) % Limb>>

\* u32::rotate_left(s)
rotate_left(x, s) ==
    LET y == IF s >= 16 THEN <<x[2], x[1]>> ELSE x
        k == s % 16
        up(v) == (v % Pow2(16 - k)) * Pow2(k)
        down(v) == v \div Pow2(16 - k)
    IN  <<up(y[1]) + down(y[2]), up(y[2]) + down(y[1])>>

\* u32::from_le_bytes
from_le_bytes(chunk) ==
    <<chunk[1] + Byte * chunk[2], chunk[3] + Byte * chunk[4]>>

Md4_f(x, y, z) == Or32(And32(x, y), And32(Not32(x), z))
Md4_g(x, y, z) == Or32(Or32(And32(x, y), And32(x, z)), And32(y, z))
Md4_h(x, y, z) == Xor32(Xor32(x, y), z)

\* 0x5A827999 and 0x6ED9EBA1
Md4_K2 == <<31129, 23170>>
Md4_K3 == <<60321, 28377>>

Md4_op1(a, b, c, d, k, s) ==
    rotate_left(wrapping_add32(wrapping_add32(a, Md4_f(b, c, d)), k), s)

Md4_op2(a, b, c, d, k, s) ==
    rotate_left(
        wrapping_add32(wrapping_add32(wrapping_add32(a, Md4_g(b, c, d)), k), Md4_K2),
        s)

Md4_op3(a, b, c, d, k, s) ==
    rotate_left(
        wrapping_add32(wrapping_add32(wrapping_add32(a, Md4_h(b, c, d)), k), Md4_K3),
        s)

\* one iteration of round 1, 2 and 3 on the words v = <<a, b, c, d>>; data
\* is indexed from 0 in the code.  The four words are evaluated in the
\* order of the assignments.
Md4_iter1(v, data, i) ==
    LET a == Md4_op1(v[1], v[2], v[3], v[4], data[i + 1], 3)
        d == Md4_op1(v[4], a, v[2], v[3], data[i + 2], 7)
        c == Md4_op1(v[3], d, a, v[2], data[i + 3], 11)
        b == Md4_op1(v[2], c, d, a, data[i + 4], 19)
    IN  CASE Len(<<a, d, c, b>>) = 4 -> <<a, b, c, d>>

Md4_iter2(v, data, i) ==
    LET a == Md4_op2(v[1], v[2], v[3], v[4], data[i + 1], 3)
        d == Md4_op2(v[4], a, v[2], v[3], data[i + 5], 5)
        c == Md4_op2(v[3], d, a, v[2], data[i + 9], 9)
        b == Md4_op2(v[2], c, d, a, data[i + 13], 13)
    IN  CASE Len(<<a, d, c, b>>) = 4 -> <<a, b, c, d>>

Md4_iter3(v, data, i) ==
    LET a == Md4_op3(v[1], v[2], v[3], v[4], data[i + 1], 3)
        d == Md4_op3(v[4], a, v[2], v[3], data[i + 9], 9)
        c == Md4_op3(v[3], d, a, v[2], data[i + 5], 11)
        b == Md4_op3(v[2], c, d, a, data[i + 13], 15)
    IN  CASE Len(<<a, d, c, b>>) = 4 -> <<a, b, c, d>>

\* for &i in &[0, 4, 8, 12], one iteration after the other
Md4_round1(v, data) ==
    LET v1 == Md4_iter1(v, data, 0)
        v2 == Md4_iter1(v1, data, 4)
        v3 == Md4_iter1(v2, data, 8)
        v4 == Md4_iter1(v3, data, 12)
    IN  CASE Len(<<v1, v2, v3, v4>>) = 4 -> v4

\* for i in 0..4
Md4_round2(v, data) ==
    LET v1 == Md4_iter2(v, data, 0)
        v2 == Md4_iter2(v1, data, 1)
        v3 == Md4_iter2(v2, data, 2)
        v4 == Md4_iter2(v3, data, 3)
    IN  CASE Len(<<v1, v2, v3, v4>>) = 4 -> v4

\* for &i in &[0, 2, 1, 3]
Md4_round3(v, data) ==
    LET v1 == Md4_iter3(v, data, 0)
        v2 == Md4_iter3(v1, data, 2)
        v3 == Md4_iter3(v2, data, 1)
        v4 == Md4_iter3(v3, data, 3)
    IN  CASE Len(<<v1, v2, v3, v4>>) = 4 -> v4

\* faulty variant: round 3 visits the words in the order 0, 1, 2, 3
Md4_round3_InOrder(v, data) ==
    LET v1 == Md4_iter3(v, data, 0)
        v2 == Md4_iter3(v1, data, 1)
        v3 == Md4_iter3(v2, data, 2)
        v4 == Md4_iter3(v3, data, 3)
    IN  CASE Len(<<v1, v2, v3, v4>>) = 4 -> v4

\* load block to data
Md4_data(input) ==
    [j \in 1..16 |-> from_le_bytes(SubSeq(input, 4 * j - 3, 4 * j))]

\* faulty variant of compress: round 3 in order
Md4_compress_Round3InOrder(s, input) ==
    LET data == Md4_data(input)
        r1 == Md4_round1(s, data)
        r2 == Md4_round2(r1, data)
        r3 == Md4_round3_InOrder(r2, data)
    IN  CASE Len(<<r1, r2, r3>>) = 3 ->
             <<wrapping_add32(s[1], r3[1]), wrapping_add32(s[2], r3[2]),
               wrapping_add32(s[3], r3[3]), wrapping_add32(s[4], r3[4])>>

\* Md4Core::compress on the four words s
Md4_compress(s, input) ==
    LET data == Md4_data(input)
        r1 == Md4_round1(s, data)
        r2 == Md4_round2(r1, data)
        r3 == Md4_round3(r2, data)
    IN  CASE Len(<<r1, r2, r3>>) = 3 ->
             <<wrapping_add32(s[1], r3[1]), wrapping_add32(s[2], r3[2]),
               wrapping_add32(s[3], r3[3]), wrapping_add32(s[4], r3[4])>>

\* the words of the chaining value s of a stream that started from S
RECURSIVE Md4_words(_, _)
Md4_words(s, absorbed) ==
    IF absorbed = <<>> THEN s
    ELSE LET s1 == Md4_compress(s, absorbed[1].m)
         IN  CASE Len(s1) = 4 -> Md4_words(s1, Tail(absorbed))

(***************************************************************************)
(* MD5                                                                     *)
(***************************************************************************)
\* consts::S0
Md5_S0 == << <<8961, 26437>>, <<43913, 61389>>, <<56574, 39098>>, <<21622, 4146>> >>

Md5Core_default == [block_len |-> U64_0, state |-> Chain(Md5_S0, U64_0)]

\* utils::compress(&mut state, block)
Md5_compress(state, block) == Absorb(state, <<>>, block, <<>>)

RECURSIVE Md5_compress_all(_, _)
Md5_compress_all(state, blocks) ==
    IF blocks = <<>> THEN state
    ELSE Md5_compress_all(Md5_compress(state, blocks[1]), Tail(blocks))

Md5Core_update_blocks(core, blocks, checks) ==
    [core |-> [block_len |-> wrapping_add(core.block_len, Word(Len(blocks), 4)),
               state |-> Md5_compress_all(core.state, blocks)],
     fault |-> FALSE]

\* block_len.wrapping_mul(64).wrapping_add(pos).wrapping_mul(8)
Md5Core_bit_len(core, pos) ==
    wrapping_mul(wrapping_add(wrapping_mul(core.block_len, 64), Word(pos, 4)), 8)

\* faulty variant: the padding blocks are compressed into self.state
Md5Core_finalize_InPlace(core, buf, checks) ==
    LET bit_len == Md5Core_bit_len(core, buf.pos)
        pad == len64_padding_le(buf, bit_len)
        s == Md5_compress_all(core.state, pad.blocks)
    IN  [core |-> [core EXCEPT !.state = s],
         buf |-> [buffer |-> pad.buffer, pos |-> pad.pos],
         out |-> <<[of |-> s, from |-> 0, to |-> 16, be |-> FALSE]>>,
         fault |-> FALSE]

Md5Core_finalize_fixed_core(core, buf, checks) ==
    LET bit_len == Md5Core_bit_len(core, buf.pos)
        pad == len64_padding_le(buf, bit_len)
        s == Md5_compress_all(core.state, pad.blocks)
    IN  [core |-> core,
         buf |-> [buffer |-> pad.buffer, pos |-> pad.pos],
         out |-> <<[of |-> s, from |-> 0, to |-> 16, be |-> FALSE]>>,
         fault |-> FALSE]

(***************************************************************************)
(* RIPEMD-160 and RIPEMD-320                                               *)
(***************************************************************************)
\* block::H0 of ripemd160 and of ripemd320
Ripemd160_H0 == << <<8961, 26437>>, <<43913, 61389>>, <<56574, 39098>>,
                   <<21622, 4146>>, <<57840, 50130>> >>
Ripemd320_H0 == << <<8961, 26437>>, <<43913, 61389>>, <<56574, 39098>>,
                   <<21622, 4146>>, <<57840, 50130>>, <<12816, 30292>>,
                   <<47768, 65244>>, <<52719, 35243>>, <<17767, 291>>,
                   <<7695, 15405>> >>

Ripemd160Core_default == [h |-> Chain(Ripemd160_H0, U64_0), block_len |-> U64_0]
Ripemd320Core_default == [h |-> Chain(Ripemd320_H0, U64_0), block_len |-> U64_0]

\* block::compress(&mut h, block)
Ripemd_compress(h, block) == Absorb(h, <<>>, block, <<>>)

RECURSIVE Ripemd_compress_all(_, _)
Ripemd_compress_all(h, blocks) ==
    IF blocks = <<>> THEN h
    ELSE Ripemd_compress_all(Ripemd_compress(h, blocks[1]), Tail(blocks))

\* self.block_len += blocks.len() as u64
RipemdCore_update_blocks(core, blocks, checks) ==
    LET sum == AddCarry(core.block_len, Word(Len(blocks), 4), 0)
    IN  IF checks /\ sum.c # 0
        THEN [core |-> core, fault |-> TRUE]
        ELSE [core |-> [h |-> Ripemd_compress_all(core.h, blocks),
                        block_len |-> sum.w],
              fault |-> FALSE]

\* let bit_len = 8 * (buffer.get_pos() as u64 + bs * self.block_len)
RipemdCore_bit_len(core, pos) == PlainBitLen(core.block_len, pos, 64)

RipemdCore_finalize(core, buf, checks, size) ==
    LET bit_len == RipemdCore_bit_len(core, buf.pos)
        pad == len64_padding_le(buf, bit_len.v)
        h == Ripemd_compress_all(core.h, pad.blocks)
    IN  IF checks /\ bit_len.overflow
        THEN [core |-> core, buf |-> buf, out |-> <<>>, fault |-> TRUE]
        ELSE [core |-> core,
              buf |-> [buffer |-> pad.buffer, pos |-> pad.pos],
              out |-> <<[of |-> h, from |-> 0, to |-> size, be |-> FALSE]>>,
              fault |-> FALSE]

Ripemd160Core_finalize_fixed_core(core, buf, checks) ==
    RipemdCore_finalize(core, buf, checks, 20)
Ripemd320Core_finalize_fixed_core(core, buf, checks) ==
    RipemdCore_finalize(core, buf, checks, 40)

(***************************************************************************)
(* MD2                                                                     *)
(***************************************************************************)
Md2Core_default ==
    [x |-> Chain(Zeros(48), U64_0), checksum |-> Chain(Zeros(16), U64_0)]

\* compress folds the input into x and into the running checksum; the
\* input is a block of bytes (m) or a copied checksum value (v)
Md2Core_compress(core, m, v) ==
    [x |-> Absorb(core.x, <<>>, m, v),
     checksum |-> Absorb(core.checksum, <<>>, m, v)]

RECURSIVE Md2Core_compress_all(_, _)
Md2Core_compress_all(core, blocks) ==
    IF blocks = <<>> THEN core
    ELSE Md2Core_compress_all(Md2Core_compress(core, blocks[1], <<>>),
                              Tail(blocks))

Md2Core_update_blocks(core, blocks, checks) ==
    [core |-> Md2Core_compress_all(core, blocks), fault |-> FALSE]

\* faulty variant: the checksum is copied before the padded block is compressed
Md2Core_finalize_StaleChecksum(core, buf, checks) ==
    LET pad == pad_with_Pkcs7(buf)
        checksum == core.checksum
        c1 == Md2Core_compress(core, pad.block, <<>>)
        c2 == Md2Core_compress(c1, <<>>, <<checksum>>)
    IN  [core |-> c2,
         buf |-> [buffer |-> pad.buffer, pos |-> pad.pos],
         out |-> <<[of |-> c2.x, from |-> 0, to |-> 16, be |-> FALSE]>>,
         fault |-> FALSE]

Md2Core_finalize_fixed_core(core, buf, checks) ==
    LET pad == pad_with_Pkcs7(buf)
        c1 == Md2Core_compress(core, pad.block, <<>>)
        checksum == c1.checksum
        c2 == Md2Core_compress(c1, <<>>, <<checksum>>)
    IN  [core |-> c2,
         buf |-> [buffer |-> pad.buffer, pos |-> pad.pos],
         out |-> <<[of |-> c2.x, from |-> 0, to |-> 16, be |-> FALSE]>>,
         fault |-> FALSE]

(***************************************************************************)
(* Streebog                                                                *)
(***************************************************************************)
U32_0 == Word(0, 2)

StreebogState_new(h0) ==
    [h |-> Chain(h0, U64_0), n |-> [i \in 1..8 |-> U32_0], sigma |-> Zeros(64)]

Streebog256Core_default == StreebogState_new(Ones(64))
Streebog512Core_default == StreebogState_new(Zeros(64))

\* g(n, m): the keyed permutation folds m into h under key n
Streebog_g(state, n, m) == [state EXCEPT !.h = Absorb(@, n, m, <<>>)]

\* carry = a + b + (carry >> 8); a = carry & 0xFF, over the 64 bytes
RECURSIVE SigmaFrom(_, _, _, _)
SigmaFrom(sigma, m, i, carry) ==
    IF i > Len(sigma) THEN <<>>
    ELSE LET c == sigma[i] + m[i] + (carry \div Byte)
         IN  <<c % Byte>> \o SigmaFrom(sigma, m, i + 1, c)

\* the values `carry` takes in the loop of update_sigma, byte after byte
RECURSIVE Streebog_sigma_carries(_, _, _, _)
Streebog_sigma_carries(sigma, m, i, carry) ==
    IF i > Len(sigma) THEN <<>>
    ELSE LET c == sigma[i] + m[i] + (carry \div Byte)
         IN  <<c>> \o Streebog_sigma_carries(sigma, m, i + 1, c)

\* faulty variant: each byte is added on its own, without the carry
Streebog_update_sigma_NoCarry(state, m) ==
    [state EXCEPT !.sigma = [i \in 1..64 |-> (@[i] + m[i]) % Byte]]

Streebog_update_sigma(state, m) ==
    [state EXCEPT !.sigma = SigmaFrom(@, m, 1, 0)]

\* faulty variant: the carry out of a limb is dropped
Streebog_adc_NoCarry(a, b, carry) ==
    LET ret == AddCarry(a, b, carry) IN [a |-> ret.w, carry |-> 0]

\* adc(a, b, carry) on u32: ret = a + b + carry as u64
Streebog_adc(a, b, carry) ==
    LET ret == AddCarry(a, b, carry) IN [a |-> ret.w, carry |-> ret.c]

RECURSIVE AdcFrom(_, _, _, _)
AdcFrom(n, b, i, carry) ==
    IF i > Len(n) THEN <<>>
    ELSE LET r == Streebog_adc(n[i], IF i = 1 THEN b ELSE U32_0, carry)
         IN  <<r.a>> \o AdcFrom(n, b, i + 1, r.carry)

Streebog_update_n(state, len) ==
    [state EXCEPT !.n = AdcFrom(@, Word(8 * len, 2), 1, 0)]

Streebog_get_n_bytes(state) == Serialize(state.n, FALSE) \o Zeros(32)

\* faulty variant: the counter is advanced before g reads it
Streebog_compress_CountFirst(state, block, msg_len) ==
    LET s1 == Streebog_update_n(state, msg_len)
    IN  Streebog_update_sigma(
            Streebog_g(s1, Streebog_get_n_bytes(s1), block), block)

Streebog_compress(state, block, msg_len) ==
    Streebog_update_sigma(
        Streebog_update_n(
            Streebog_g(state, Streebog_get_n_bytes(state), block), msg_len),
        block)

RECURSIVE Streebog_compress_all(_, _)
Streebog_compress_all(state, blocks) ==
    IF blocks = <<>> THEN state
    ELSE Streebog_compress_all(Streebog_compress(state, blocks[1], 64),
                               Tail(blocks))

Streebog_update_blocks(state, blocks, checks) ==
    [core |-> Streebog_compress_all(state, blocks), fault |-> FALSE]

\* StreebogState::finalize: the state and the buffer it leaves
Streebog_finalize(state, buf) ==
    LET pos == buf.pos
        pad == pad_with_ZeroPadding(buf)
        block == [pad.block EXCEPT ![pos + 1] = 1]
        s1 == Streebog_compress(state, block, pos)
        s2 == Streebog_g(s1, Zeros(64), Streebog_get_n_bytes(s1))
        sigma == s2.sigma
        s3 == Streebog_g(s2, Zeros(64), sigma)
    IN  [core |-> s3, buf |-> [buffer |-> block, pos |-> pad.pos]]

\* faulty variant: the digest is copied from the low half of h
Streebog256Core_finalize_LowHalf(core, buf, checks) ==
    LET f == Streebog_finalize(core, buf)
    IN  [core |-> f.core, buf |-> f.buf,
         out |-> <<[of |-> f.core.h, from |-> 0, to |-> 32, be |-> FALSE]>>,
         fault |-> FALSE]

Streebog256Core_finalize_fixed_core(core, buf, checks) ==
    LET f == Streebog_finalize(core, buf)
    IN  [core |-> f.core, buf |-> f.buf,
         out |-> <<[of |-> f.core.h, from |-> 32, to |-> 64, be |-> FALSE]>>,
         fault |-> FALSE]

Streebog512Core_finalize_fixed_core(core, buf, checks) ==
    LET f == Streebog_finalize(core, buf)
    IN  [core |-> f.core, buf |-> f.buf,
         out |-> <<[of |-> f.core.h, from |-> 0, to |-> 64, be |-> FALSE]>>,
         fault |-> FALSE]

(***************************************************************************)
(* Whirlpool                                                               *)
(***************************************************************************)
WhirlpoolCore_default ==
    [bit_len |-> [i \in 1..4 |-> U64_0],
     state |-> Chain([i \in 1..8 |-> U64_0], U64_0)]

\* compress::compress(&mut state, block)
Whirlpool_compress(state, block) == Absorb(state, <<>>, block, <<>>)

RECURSIVE Whirlpool_compress_all(_, _)
Whirlpool_compress_all(state, blocks) ==
    IF blocks = <<>> THEN state
    ELSE Whirlpool_compress_all(Whirlpool_compress(state, blocks[1]),
                                Tail(blocks))

\* adc(a, b, carry) on u64: ret = a + b + carry as u128
Whirlpool_adc(a, b, carry) ==
    LET ret == AddCarry(a, b, carry) IN [a |-> ret.w, carry |-> ret.c]

\* faulty variant: the carry out of bit_len[3] is dropped
WhirlpoolCore_update_len_NoCarry(core, len) ==
    LET r3 == Whirlpool_adc(core.bit_len[4], len, 0)
    IN  [core EXCEPT !.bit_len = <<@[1], @[2], @[3], r3.a>>]

\* adc over bit_len[3], bit_len[2], bit_len[1], bit_len[0]
WhirlpoolCore_update_len(core, len) ==
    LET r3 == Whirlpool_adc(core.bit_len[4], len, 0)
        r2 == Whirlpool_adc(core.bit_len[3], U64_0, r3.carry)
        r1 == Whirlpool_adc(core.bit_len[2], U64_0, r2.carry)
        r0 == Whirlpool_adc(core.bit_len[1], U64_0, r1.carry)
    IN  [core EXCEPT !.bit_len = <<r0.a, r1.a, r2.a, r3.a>>]

\* self.update_len(n * blocks.len()) with n = 8 * 64
WhirlpoolCore_update_blocks(core, blocks, checks) ==
    LET len == MulSmall(Word(Len(blocks), 4), 8 * 64)
        c1 == WhirlpoolCore_update_len(core, len.w)
    IN  IF checks /\ len.c # 0
        THEN [core |-> core, fault |-> TRUE]
        ELSE [core |-> [c1 EXCEPT !.state = Whirlpool_compress_all(@, blocks)],
              fault |-> FALSE]

WhirlpoolCore_finalize_fixed_core(core, buf, checks) ==
    LET pos == buf.pos
        c1 == WhirlpoolCore_update_len(core, Word(8 * pos, 4))
        suffix == Serialize(c1.bit_len, TRUE)
        pad == digest_pad(buf, suffix)
        state == Whirlpool_compress_all(c1.state, pad.blocks)
    IN  [core |-> c1,
         buf |-> [buffer |-> pad.buffer, pos |-> pad.pos],
         out |-> <<[of |-> state, from |-> 0, to |-> 64, be |-> TRUE]>>,
         fault |-> FALSE]

(***************************************************************************)
(* The streaming driver (UpdateCoreWrapper<Core>): a core and a buffer     *)
(***************************************************************************)
Algs == {"md2", "md4", "md5", "ripemd160", "ripemd320",
         "streebog256", "streebog512", "whirlpool"}

\* faulty variant: MD2 declared with the 64-byte block of the other cores
BlockSize_AllU64(a) == 64

\* type BlockSize of each core
BlockSize(a) == IF a = "md2" THEN 16 ELSE 64

\* Default::default of each core
Default(a) ==
    CASE a = "md2" -> Md2Core_default
      [] a = "md4" -> Md4Core_default
      [] a = "md5" -> Md5Core_default
      [] a = "ripemd160" -> Ripemd160Core_default
      [] a = "ripemd320" -> Ripemd320Core_default
      [] a = "streebog256" -> Streebog256Core_default
      [] a = "streebog512" -> Streebog512Core_default
      [] a = "whirlpool" -> WhirlpoolCore_default

\* the cores that implement Reset
HasReset(a) == a \in {"md2", "md4", "md5", "ripemd320",
                      "streebog256", "streebog512", "whirlpool"}

\* UpdateCore::update_blocks of each core
update_blocks(a, core, blocks, checks) ==
    CASE a = "md2" -> Md2Core_update_blocks(core, blocks, checks)
      [] a = "md4" -> Md4Core_update_blocks(core, blocks, checks)
      [] a = "md5" -> Md5Core_update_blocks(core, blocks, checks)
      [] a \in {"ripemd160", "ripemd320"} ->
             RipemdCore_update_blocks(core, blocks, checks)
      [] a \in {"streebog256", "streebog512"} ->
             Streebog_update_blocks(core, blocks, checks)
      [] a = "whirlpool" -> WhirlpoolCore_update_blocks(core, blocks, checks)

\* FixedOutputCore::finalize_fixed_core of each core
finalize_fixed_core(a, core, buf, checks) ==
    CASE a = "md2" -> Md2Core_finalize_fixed_core(core, buf, checks)
      [] a = "md4" -> Md4Core_finalize_fixed_core(core, buf, checks)
      [] a = "md5" -> Md5Core_finalize_fixed_core(core, buf, checks)
      [] a = "ripemd160" -> Ripemd160Core_finalize_fixed_core(core, buf, checks)
      [] a = "ripemd320" -> Ripemd320Core_finalize_fixed_core(core, buf, checks)
      [] a = "streebog256" -> Streebog256Core_finalize_fixed_core(core, buf, checks)
      [] a = "streebog512" -> Streebog512Core_finalize_fixed_core(core, buf, checks)
      [] a = "whirlpool" -> WhirlpoolCore_finalize_fixed_core(core, buf, checks)

\* the callback invocations of one digest_blocks call, in order; a fault
\* (overflow panic) ends the call
RECURSIVE RunCalls(_, _, _, _)
RunCalls(a, core, calls, checks) ==
    IF calls = <<>> THEN [core |-> core, fault |-> FALSE]
    ELSE LET r == update_blocks(a, core, calls[1], checks)
         IN  IF r.fault THEN r ELSE RunCalls(a, r.core, Tail(calls), checks)

\* Update::update of the wrapper
WrapperUpdate(a, h, input, checks) ==
    LET d == digest_blocks(h.buf, input)
        r == RunCalls(a, h.core, d.calls, checks)
    IN  [core |-> r.core,
         buf |-> [buffer |-> d.buffer, pos |-> d.pos],
         fault |-> r.fault]

\* a fresh hasher
NewHasher(a) == [core |-> Default(a), buf |-> NewBuffer(BlockSize(a))]

(***************************************************************************)
(* Inputs                                                                  *)
(***************************************************************************)
\* byte i (from 0) of the message stream
Pattern(i) == (37 * i + 11) % Byte

\* the n bytes of the stream that follow its first `from` bytes
Input(from, n) == [i \in 1..n |-> Pattern(from + i - 1)]

\* chunk lengths around the block boundary and the padding thresholds
ChunkLens(bs) == {0, bs \div 2, bs - 8, bs + 1, 2 * bs}

\* the lengths of a first chunk: every buffered position, and past a block
FeedLens(bs) == 0..(bs + MaxTail)

MaxMsgLen(bs) == MaxBlocks * bs + MaxTail

\* block counts from which the counters are about to carry or overflow:
\* 2^23 - 1, 2^55 - 1, 2^58 - 1 and 2^64 - 1
P23 == <<65535, 127, 0, 0>>
P55 == <<65535, 65535, 65535, 127>>
P58 == <<65535, 65535, 65535, 1023>>
P64 == <<65535, 65535, 65535, 65535>>

\* 2^247 - 1 blocks, where Streebog's 256-bit counter is about to wrap
P247 == [i \in 1..16 |-> IF i = 16 THEN 127 ELSE 65535]

PriorBlocks(a) ==
    CASE a = "md2" -> {U64_0}
      [] a \in {"md4", "md5", "ripemd160", "ripemd320"} -> {U64_0, P55, P58, P64}
      [] a \in {"streebog256", "streebog512"} -> {U64_0, P23, P55, P247}
      [] a = "whirlpool" -> {U64_0, P55, P64}

\* 512 * blocks as a 256-bit number of 16 limbs, least significant first
BitsOf(blocks) == MulSmall(SubSeq(blocks \o Zeros(12), 1, 16), 8 * 64).w

\* the running sums a Streebog stream may have reached after some blocks
SigmaSamples(blocks) ==
    IF blocks = U64_0 THEN {Zeros(64)} ELSE {Zeros(64), [i \in 1..64 |-> 255]}

\* the core after `blocks` blocks of a stream have gone through update_blocks
After(a, blocks, sigma) ==
    LET d == Default(a)
        bits == BitsOf(blocks)
    IN  CASE a = "md2" -> d
          [] a = "md4" -> [blocks |-> blocks, s |-> Chain(d.s.iv, blocks)]
          [] a = "md5" -> [block_len |-> blocks, state |-> Chain(d.state.iv, blocks)]
          [] a \in {"ripemd160", "ripemd320"} ->
                 [h |-> Chain(d.h.iv, blocks), block_len |-> blocks]
          [] a \in {"streebog256", "streebog512"} ->
                 [h |-> Chain(d.h.iv, blocks),
                  n |-> [i \in 1..8 |-> SubSeq(bits, 2 * i - 1, 2 * i)],
                  sigma |-> sigma]
          [] a = "whirlpool" ->
                 [bit_len |-> [i \in 1..4 |-> SubSeq(bits, 17 - 4 * i, 20 - 4 * i)],
                  state |-> Chain(d.state.iv, blocks)]

(***************************************************************************)
(* State                                                                   *)
(***************************************************************************)
VARIABLES
    alg,      \* the algorithm of this hasher
    checks,   \* the build: TRUE if arithmetic overflow panics, FALSE if it wraps
    core,     \* the core
    buf,      \* the block buffer
    phase,    \* "live", "finalized" or "panicked"
    out,      \* <<digest>> once finalized: which bytes of which chaining value
    msg,      \* history: the bytes fed since construction or reset
    prior,    \* history: blocks absorbed before the part of the stream in msg
    pre,      \* history: <<hasher>> as it was when finalize was entered
    updates,  \* history: number of update calls so far
    resets,   \* history: number of resets so far
    twin      \* <<clone>> once the hasher has been cloned: its core, buffer,
              \* phase and digest, and the history of the bytes fed to it

vars == <<alg, checks, core, buf, phase, out, msg, prior, pre, updates, resets,
          twin>>

\* a hasher as constructed
Init ==
    /\ alg \in Algs
    /\ checks \in BOOLEAN
    /\ core = Default(alg)
    /\ buf = NewBuffer(BlockSize(alg))
    /\ phase = "live"
    /\ out = <<>>
    /\ msg = <<>>
    /\ prior = U64_0
    /\ pre = <<>>
    /\ updates = 0
    /\ resets = 0
    /\ twin = <<>>

\* a hasher at a block boundary of a stream, fresh or long
InitLen ==
    /\ alg \in Algs
    /\ checks \in BOOLEAN
    /\ prior \in PriorBlocks(alg)
    /\ \E sigma \in SigmaSamples(prior) : core = After(alg, prior, sigma)
    /\ buf = NewBuffer(BlockSize(alg))
    /\ phase = "live"
    /\ out = <<>>
    /\ msg = <<>>
    /\ pre = <<>>
    /\ updates = 0
    /\ resets = 0
    /\ twin = <<>>

\* hasher.update(input) with a chunk of one of the lengths `lens`
UpdateFrom(lens) ==
    /\ phase = "live"
    /\ \E len \in lens :
          /\ Len(msg) + len <= MaxMsgLen(BlockSize(alg))
          /\ LET input == Input(Len(msg), len)
                 r == WrapperUpdate(alg, [core |-> core, buf |-> buf], input, checks)
             IN  /\ core' = r.core
                 /\ buf' = r.buf
                 /\ phase' = IF r.fault THEN "panicked" ELSE "live"
                 /\ msg' = msg \o input
    /\ updates' = updates + 1
    /\ UNCHANGED <<alg, checks, out, prior, pre, resets, twin>>

\* any of a bounded number of update calls
Update == updates < MaxUpdates /\ UpdateFrom(ChunkLens(BlockSize(alg)))

\* a first update call of any length
Feed == updates = 0 /\ UpdateFrom(FeedLens(BlockSize(alg)))

\* a later update call with one more block
More == updates > 0 /\ UpdateFrom({BlockSize(alg)})

\* hasher.finalize(): finalize_fixed_core on the core and the buffer
Finalize ==
    /\ phase = "live"
    /\ LET r == finalize_fixed_core(alg, core, buf, checks)
       IN  /\ core' = r.core
           /\ buf' = r.buf
           /\ out' = r.out
           /\ phase' = IF r.fault THEN "panicked" ELSE "finalized"
    /\ pre' = <<[core |-> core, buf |-> buf]>>
    /\ UNCHANGED <<alg, checks, msg, prior, updates, resets, twin>>

\* hasher.reset(): core.reset() and buffer.reset(), where the core has one
Reset ==
    /\ phase \in {"live", "finalized"}
    /\ HasReset(alg)
    /\ resets < MaxResets
    /\ core' = Default(alg)
    /\ buf' = reset_buffer(buf)
    /\ phase' = "live"
    /\ out' = <<>>
    /\ msg' = <<>>
    /\ prior' = U64_0
    /\ pre' = <<>>
    /\ resets' = resets + 1
    /\ UNCHANGED <<alg, checks, updates, twin>>

Next == Update \/ Finalize \/ Reset

\* fresh hashers fed in chunks
Spec == Init /\ [][Next]_vars

NextLen == Feed \/ More \/ Finalize

\* hashers at any point of a long stream, fed a tail and finalized
SpecLen == InitLen /\ [][NextLen]_vars

\* faulty variant: the clone's chaining words are the initial ones
Core_clone_InitialWords(c) ==
    [f \in DOMAIN c |->
        IF f \in {"x", "s", "state", "h"}
        THEN [c[f] EXCEPT !.absorbed = <<>>] ELSE c[f]]

\* #[derive(Clone)] of a core: every field is copied by value
Core_clone(c) == [f \in DOMAIN c |-> c[f]]

\* Clone of the wrapper: the core's clone and a copy of the buffer
Hasher_clone(a, h) ==
    [core |-> Core_clone(h.core),
     buf |-> [buffer |-> h.buf.buffer, pos |-> h.buf.pos]]

\* chunk lengths of the two copies: within a block, and past one
CloneLens(bs) == {bs \div 2, bs + 1}

\* hasher.update(input) of the original
OwnUpdate == updates < MaxUpdates /\ UpdateFrom(CloneLens(BlockSize(alg)))

\* let twin = hasher.clone(), while the hasher is live
Clone ==
    /\ phase = "live"
    /\ twin = <<>>
    /\ LET c == Hasher_clone(alg, [core |-> core, buf |-> buf])
       IN  twin' = <<[core |-> c.core, buf |-> c.buf, phase |-> "live",
                      out |-> <<>>, msg |-> msg, updates |-> updates,
                      at |-> Len(msg)]>>
    /\ UNCHANGED <<alg, checks, core, buf, phase, out, msg, prior, pre,
                   updates, resets>>

\* twin.update(input)
TwinUpdate ==
    /\ twin # <<>>
    /\ twin[1].phase = "live"
    /\ twin[1].updates < MaxUpdates
    /\ \E len \in CloneLens(BlockSize(alg)) :
          /\ Len(twin[1].msg) + len <= MaxMsgLen(BlockSize(alg))
          /\ LET input == Input(Len(twin[1].msg), len)
                 r == WrapperUpdate(alg, twin[1], input, checks)
             IN  twin' = <<[twin[1] EXCEPT
                               !.core = r.core, !.buf = r.buf,
                               !.phase = IF r.fault THEN "panicked" ELSE "live",
                               !.msg = @ \o input,
                               !.updates = @ + 1]>>
    /\ UNCHANGED <<alg, checks, core, buf, phase, out, msg, prior, pre,
                   updates, resets>>

\* twin.finalize()
TwinFinalize ==
    /\ twin # <<>>
    /\ twin[1].phase = "live"
    /\ LET r == finalize_fixed_core(alg, twin[1].core, twin[1].buf, checks)
       IN  twin' = <<[twin[1] EXCEPT
                         !.core = r.core, !.buf = r.buf, !.out = r.out,
                         !.phase = IF r.fault THEN "panicked" ELSE "finalized"]>>
    /\ UNCHANGED <<alg, checks, core, buf, phase, out, msg, prior, pre,
                   updates, resets>>

NextClone == OwnUpdate \/ Finalize \/ Clone \/ TwinUpdate \/ TwinFinalize

\* a hasher and its clone, each fed and finalized on its own
SpecClone == Init /\ [][NextClone]_vars

\* b"hello world"
HelloWorld == <<104, 101, 108, 108, 111, 32, 119, 111, 114, 108, 100>>

\* a fresh Md4 hasher
InitText == Init /\ alg = "md4"

\* hasher.update(..) with the next bytes of the text, all of them or a part
TextUpdate ==
    /\ phase = "live"
    /\ updates < MaxUpdates
    /\ Len(msg) <= Len(HelloWorld)
    /\ msg = SubSeq(HelloWorld, 1, Len(msg))
    /\ \E len \in 0..(Len(HelloWorld) - Len(msg)) :
          LET input == SubSeq(HelloWorld, Len(msg) + 1, Len(msg) + len)
              r == WrapperUpdate(alg, [core |-> core, buf |-> buf], input, checks)
          IN  /\ core' = r.core
              /\ buf' = r.buf
              /\ phase' = IF r.fault THEN "panicked" ELSE "live"
              /\ msg' = msg \o input
    /\ updates' = updates + 1
    /\ UNCHANGED <<alg, checks, out, prior, pre, resets, twin>>

NextText == TextUpdate \/ Finalize \/ Reset

\* Md4 hashers fed the text of the usage example
SpecText == InitText /\ [][NextText]_vars

(***************************************************************************)
(* Reference arithmetic for the properties: natural numbers as sequences   *)
(* of base-256 digits, least significant first                             *)
(***************************************************************************)
RECURSIVE DigitsAdd(_, _, _)
DigitsAdd(a, b, c) ==
    IF a = <<>> THEN <<>>
    ELSE LET t == a[1] + b[1] + c
         IN  <<t % 256>> \o DigitsAdd(Tail(a), Tail(b), t \div 256)

RECURSIVE DigitsMul(_, _, _)
DigitsMul(a, k, c) ==
    IF a = <<>> THEN <<>>
    ELSE LET t == a[1] * k + c
         IN  <<t % 256>> \o DigitsMul(Tail(a), k, t \div 256)

RECURSIVE DigitsOfNat(_, _)
DigitsOfNat(v, d) ==
    IF d = 0 THEN <<>> ELSE <<v % 256>> \o DigitsOfNat(v \div 256, d - 1)

RECURSIVE DigitsOfWord(_)
DigitsOfWord(w) ==
    IF w = <<>> THEN <<>>
    ELSE <<w[1] % 256, w[1] \div 256>> \o DigitsOfWord(Tail(w))

RECURSIVE DigitsOfWords(_)
DigitsOfWords(ws) ==
    IF ws = <<>> THEN <<>> ELSE DigitsOfWord(ws[1]) \o DigitsOfWords(Tail(ws))

\* 8 * (64 * blocks + bytes) modulo 256^d
MessageBits(blocks, bytes, d) ==
    LET b == SubSeq(DigitsOfWord(blocks) \o Zeros(d), 1, d)
    IN  DigitsMul(DigitsAdd(DigitsMul(b, 64, 0), DigitsOfNat(bytes, d), 0), 8, 0)

RECURSIVE Flatten(_)
Flatten(blocks) ==
    IF blocks = <<>> THEN <<>> ELSE blocks[1] \o Flatten(Tail(blocks))

\* the bytes of the blocks compressed into a chaining value
Compressed(chain) == Flatten([i \in 1..Len(chain.absorbed) |-> chain.absorbed[i].m])

\* the bytes the buffer holds
Buffered(b) == SubSeq(b.buffer, 1, b.pos)

\* the chaining value of a core
ChainOf(a, c) ==
    CASE a = "md2" -> c.x
      [] a = "md4" -> c.s
      [] a \in {"md5", "whirlpool"} -> c.state
      [] OTHER -> c.h

(***************************************************************************)
(* C1  Chunk-invariance: however the message was split into update calls,  *)
(* the core (chaining value with the blocks compressed into it, counters), *)
(* the buffered bytes, the state finalize starts from and the digest are   *)
(* those of a fresh hasher fed the whole message in one update call.       *)
(***************************************************************************)
OneUpdate == WrapperUpdate(alg, NewHasher(alg), msg, checks)

C1_ChunkInvariance ==
    LET one == OneUpdate
        fin == finalize_fixed_core(alg, one.core, one.buf, checks)
    IN  /\ phase = "live" =>
              /\ core = one.core
              /\ buf.pos = one.buf.pos
              /\ Buffered(buf) = Buffered(one.buf)
        /\ phase = "finalized" =>
              /\ pre[1].core = one.core
              /\ Buffered(pre[1].buf) = Buffered(one.buf)
              /\ core = fin.core
              /\ out = fin.out

\* a message fed as two non-empty chunks, the second crossing the block
\* boundary inside the buffer, and finalized
C1_Witness ==
    /\ phase = "finalized"
    /\ updates = 2
    /\ Len(msg) = 2 * (BlockSize(alg) - 8)
    /\ pre[1].buf.pos = BlockSize(alg) - 16
    /\ Len(ChainOf(alg, core).absorbed) >= 1

(***************************************************************************)
(* C2  For each of the eight algorithms, reset can be invoked at any       *)
(* point (before any update, mid-stream, after finalize) and returns the   *)
(* core and the buffer position to the initial value.                      *)
(***************************************************************************)
C2_ResetAtAnyPoint ==
    (phase \in {"live", "finalized"} /\ resets < MaxResets) => ENABLED Reset

(***************************************************************************)
(* C3  MD4, MD5, RIPEMD-160, RIPEMD-320: over update* ; finalize on a      *)
(* message M the blocks compressed are M, one 0x80 byte, the least number  *)
(* of zero bytes and the 8-byte little-endian (8 * |M|) mod 2^64, a whole  *)
(* number of blocks; finalize compresses once from a buffered position of  *)
(* at most 55 and twice from 56..63.                                       *)
(***************************************************************************)
LenAlgs == {"md4", "md5", "ripemd160", "ripemd320"}

\* the least k >= 0 with n + 1 + k + suffix a multiple of 64
ZeroFill(n, suffix) == (64 - ((n + 1 + suffix) % 64)) % 64

C3_Layout ==
    LET p == pre[1].buf.pos
        before == ChainOf(alg, pre[1].core)
        after == out[1].of
    IN  /\ Compressed(after) =
              msg \o <<128>> \o Zeros(ZeroFill(Len(msg), 8))
                  \o MessageBits(prior, Len(msg), 8)
        /\ Len(after.absorbed) - Len(before.absorbed) = IF p <= 55 THEN 1 ELSE 2
        /\ \A i \in 1..Len(after.absorbed) : Len(after.absorbed[i].m) = 64

C3_LengthPadding ==
    (alg \in LenAlgs /\ pre # <<>>) => (phase = "finalized" /\ C3_Layout)

\* supporting fact: the layout is as stated wherever finalize returns
LayoutWhenFinalized ==
    (alg \in LenAlgs /\ phase = "finalized") => C3_Layout

(***************************************************************************)
(* C4  MD4 and MD5 alike: update adds the processed blocks to the counter  *)
(* modulo 2^64, and for every counter c and buffered position p finalize   *)
(* completes and writes (8 * (p + 64 * c)) mod 2^64 as the length field,   *)
(* the same for both algorithms.                                           *)
(***************************************************************************)
CounterOf(a, c) == IF a = "md4" THEN c.blocks ELSE c.block_len

\* the last 8 bytes compressed
LengthField(chain) ==
    LET bytes == Compressed(chain) IN SubSeq(bytes, Len(bytes) - 7, Len(bytes))

C4_CounterAndLengthWrap ==
    alg \in {"md4", "md5"} =>
        /\ phase = "live" =>
              DigitsOfWord(CounterOf(alg, core)) =
                  DigitsAdd(DigitsOfWord(prior), DigitsOfNat(Len(msg) \div 64, 8), 0)
        /\ pre # <<>> =>
              LET c == CounterOf(alg, pre[1].core)
                  p == pre[1].buf.pos
              IN  /\ phase = "finalized"
                  /\ LengthField(out[1].of) = MessageBits(c, p, 8)
                  /\ Md4Core_len([blocks |-> c], p).v =
                         Md5Core_bit_len([block_len |-> c], p)

(***************************************************************************)
(* C5  No update or finalize call of any engine aborts: whatever value the *)
(* counters hold, the counter increment and the bit-length computation     *)
(* complete without an arithmetic-overflow fault.                          *)
(***************************************************************************)
C5_NoAbort == phase # "panicked"

(***************************************************************************)
(* C6  Between calls the buffer position p satisfies 0 <= p < block size,  *)
(* whatever the chunk sizes: p < 64 at entry to the Streebog finalize, so  *)
(* the marker write block[pos] is in range, and p < 16 at entry to the MD2 *)
(* finalize, so the padding count 16 - p is in 1..16.                      *)
(***************************************************************************)
PositionBound(a) == IF a = "md2" THEN 16 ELSE 64

C6_PositionInRange ==
    /\ buf.pos >= 0
    /\ buf.pos < PositionBound(alg)
    /\ buf.pos < Len(buf.buffer)
    /\ (pre # <<>>) =>
          LET p == pre[1].buf.pos
          IN  /\ p >= 0 /\ p < PositionBound(alg)
              /\ (alg \in {"streebog256", "streebog512"}) =>
                     (p + 1 \in DOMAIN buf.buffer /\ buf.buffer[p + 1] = 1)
              /\ (alg = "md2") =>
                     (buf.buffer[16] = 16 - p /\ 16 - p \in 1..16)

\* a chunk spanning several blocks was fed after a partial one, and the
\* hasher was finalized from a non-zero position
C6_Witness ==
    /\ phase = "finalized"
    /\ updates >= 2
    /\ Len(msg) > 2 * BlockSize(alg)
    /\ pre[1].buf.pos > 0

(***************************************************************************)
(* C7  MD2 finalize, from every buffered position p in 0..15, compresses   *)
(* exactly twice: first the buffered bytes followed by n = 16 - p bytes of *)
(* value n (sixteen 0x10 bytes when p = 0), which also updates the running *)
(* checksum, then the value the checksum holds after that first call; the  *)
(* digest is bytes 0..16 of x and not the checksum.                        *)
(***************************************************************************)
\* the last p bytes of the message: what the buffer holds at position p
MsgTail(p) == SubSeq(msg, Len(msg) - p + 1, Len(msg))

C7_Md2Finalize ==
    (alg = "md2" /\ phase = "finalized") =>
        LET p == pre[1].buf.pos
            x0 == pre[1].core.x
            ck0 == pre[1].core.checksum
            padded == MsgTail(p) \o [i \in 1..(16 - p) |-> 16 - p]
            first == [N |-> <<>>, m |-> padded, v |-> <<>>]
            ck1 == [ck0 EXCEPT !.absorbed = Append(@, first)]
            second == [N |-> <<>>, m |-> <<>>, v |-> <<ck1>>]
        IN  /\ p = Len(msg) % 16
            /\ Len(padded) = 16
            /\ core.x.absorbed = x0.absorbed \o <<first, second>>
            /\ core.checksum.absorbed = ck0.absorbed \o <<first, second>>
            /\ out = <<[of |-> core.x, from |-> 0, to |-> 16, be |-> FALSE]>>
            /\ out[1].of # core.checksum
            /\ out[1].of # ck1

\* MD2 finalized on a block-aligned message: a whole block of padding
C7_Witness ==
    /\ alg = "md2"
    /\ phase = "finalized"
    /\ Len(msg) = 16
    /\ pre[1].buf.pos = 0
    /\ core.x.absorbed[2].m = [i \in 1..16 |-> 16]

(***************************************************************************)
(* C8  Streebog finalize, from every buffered position p in 0..63: (1) the *)
(* final block is the p buffered bytes, the marker 0x01 at index p, then   *)
(* zeros; (2) it is compressed by g keyed with n as it stood before, then  *)
(* n grows by exactly 8 * p and the padded block is added to sigma; (3) g  *)
(* with an all-zero key on the 64-byte encoding of n; (4) g with an        *)
(* all-zero key on sigma; (3) and (4) change h alone.                      *)
(***************************************************************************)
StreebogAlgs == {"streebog256", "streebog512"}

C8_StreebogFinalize ==
    (alg \in StreebogAlgs /\ phase = "finalized") =>
        LET p == pre[1].buf.pos
            s0 == pre[1].core
            block == MsgTail(p) \o <<1>> \o Zeros(63 - p)
            n0 == DigitsOfWords(s0.n)
            n1 == DigitsAdd(n0, DigitsOfNat(8 * p, 32), 0)
            sigma1 == DigitsAdd(s0.sigma, block, 0)
            a == core.h.absorbed
            k == Len(s0.h.absorbed)
        IN  /\ p = Len(msg) % 64
            /\ Len(a) = k + 3
            /\ SubSeq(a, 1, k) = s0.h.absorbed
            /\ a[k + 1] = [N |-> n0 \o Zeros(32), m |-> block, v |-> <<>>]
            /\ a[k + 2] = [N |-> Zeros(64), m |-> n1 \o Zeros(32), v |-> <<>>]
            /\ a[k + 3] = [N |-> Zeros(64), m |-> sigma1, v |-> <<>>]
            /\ DigitsOfWords(core.n) = n1
            /\ core.sigma = sigma1

\* Streebog finalized from a non-zero position of a long stream: adding
\* the final block carries out of the low bytes of sigma
C8_Witness ==
    /\ alg \in StreebogAlgs
    /\ phase = "finalized"
    /\ pre[1].buf.pos = 63
    /\ prior = P55
    /\ pre[1].core.sigma[1] = 255
    /\ core.sigma[1] < 255

(***************************************************************************)
(* C9  Streebog-256 emits 32 bytes of the 64-byte accumulator h after      *)
(* finalization and Streebog-512 all 64; the two variants share update and *)
(* finalize and differ only in the initial h (every byte 0x01 for 256,     *)
(* every byte 0x00 for 512) and in this projection.                        *)
(***************************************************************************)
\* the other variant, fresh, fed the same message in one call and finalized
Twin ==
    LET other == IF alg = "streebog256" THEN "streebog512" ELSE "streebog256"
        one == WrapperUpdate(other, NewHasher(other), msg, checks)
    IN  finalize_fixed_core(other, one.core, one.buf, checks)

\* what the variants share, and the initial h of each
C9_SharedEngine ==
    /\ core.n = Twin.core.n
    /\ core.sigma = Twin.core.sigma
    /\ core.h.absorbed = Twin.core.h.absorbed
    /\ core.h.iv = (IF alg = "streebog256" THEN Ones(64) ELSE Zeros(64))
    /\ Twin.core.h.iv = (IF alg = "streebog256" THEN Zeros(64) ELSE Ones(64))

\* as claimed: Streebog-256 emits the low half h[0..32]
C9_LowHalf ==
    (alg \in StreebogAlgs /\ phase = "finalized") =>
        /\ C9_SharedEngine
        /\ out[1].of = core.h
        /\ alg = "streebog256" => (out[1].from = 0 /\ out[1].to = 32)
        /\ alg = "streebog512" => (out[1].from = 0 /\ out[1].to = 64)

\* amended: Streebog-256 emits the high half h[32..64]
C9_HighHalf ==
    (alg \in StreebogAlgs /\ phase = "finalized") =>
        /\ C9_SharedEngine
        /\ out[1].of = core.h
        /\ alg = "streebog256" => (out[1].from = 32 /\ out[1].to = 64)
        /\ alg = "streebog512" => (out[1].from = 0 /\ out[1].to = 64)

\* Streebog-256 finalized on a message longer than a block
C9_Witness ==
    /\ alg = "streebog256"
    /\ phase = "finalized"
    /\ Len(msg) > 64
    /\ out[1].to - out[1].from = 32

(***************************************************************************)
(* C10  Whirlpool: over update* ; finalize on a message M the blocks       *)
(* compressed are M, 0x80, the least number of zero bytes and a 32-byte    *)
(* length field, a whole number of blocks, with an extra block exactly     *)
(* from a buffered position >= 32; the field is the 256-bit 8 * |M| as     *)
(* four 64-bit big-endian limbs, most significant first; the counter is    *)
(* accumulated with carry from bit_len[3] up to bit_len[0] on every update *)
(* and once more for the buffered remainder at finalize.                   *)
(***************************************************************************)
C10_WhirlpoolLength ==
    alg = "whirlpool" =>
        /\ phase = "live" =>
              Serialize(core.bit_len, TRUE) =
                  Reverse(MessageBits(prior, Len(msg) - buf.pos, 32))
        /\ phase = "finalized" =>
              LET p == pre[1].buf.pos
                  before == pre[1].core.state
                  after == out[1].of
                  field == Reverse(MessageBits(prior, Len(msg), 32))
              IN  /\ Compressed(after) =
                        msg \o <<128>> \o Zeros(ZeroFill(Len(msg), 32)) \o field
                  /\ Len(after.absorbed) - Len(before.absorbed) =
                        IF p >= 32 THEN 2 ELSE 1
                  /\ \A i \in 1..Len(after.absorbed) :
                        Len(after.absorbed[i].m) = 64
                  /\ Serialize(core.bit_len, TRUE) = field
                  /\ out[1].be

\* Whirlpool finalized from position 32 after an update that carried out of
\* bit_len[3]
C10_Witness ==
    /\ alg = "whirlpool"
    /\ phase = "finalized"
    /\ prior = P55
    /\ Len(msg) = 96
    /\ pre[1].buf.pos = 32
    /\ core.bit_len[3] = Word(1, 4)
    /\ core.bit_len[4] = Word(256, 4)

(***************************************************************************)
(* C11  Clone: once a hasher has been cloned, the two copies that have     *)
(* been fed the same bytes and are in the same phase hold the same core,   *)
(* the same buffered bytes and (when finalized) the same digest; the clone *)
(* starts as a copy of the original, and every later operation changes at  *)
(* most one of the two copies.                                             *)
(***************************************************************************)
Original == [core |-> core, buf |-> buf, phase |-> phase, out |-> out]

Copy == [f \in {"core", "buf", "phase", "out"} |-> twin[1][f]]

SameFuture ==
    (twin # <<>> /\ twin[1].msg = msg /\ twin[1].phase = phase) =>
        /\ twin[1].core = core
        /\ Buffered(twin[1].buf) = Buffered(buf)
        /\ twin[1].out = out

NoAliasing ==
    /\ (twin = <<>> /\ twin' # <<>>) =>
           (Original' = Original /\ Copy' = Original /\ twin'[1].msg = msg)
    /\ (twin # <<>>) =>
           (twin' # <<>> /\ (Original' = Original \/ twin' = twin))

C11_CloneIndependence == []SameFuture /\ [][NoAliasing]_vars

\* both copies went on past the clone point with the same bytes, split
\* differently or not, and both were finalized
C11_Witness ==
    /\ twin # <<>>
    /\ phase = "finalized"
    /\ twin[1].phase = "finalized"
    /\ twin[1].msg = msg
    /\ twin[1].at > 0
    /\ Len(msg) > twin[1].at
    /\ Len(msg) > BlockSize(alg)
    /\ pre[1].buf.pos > 0

(***************************************************************************)
(* C12  MD4 known answers: the digest of a fresh Md4 hasher finalized with *)
(* no input is 31d6cfe0d16ae931b73c59d7e0c089c0, after "hello world" it is *)
(* aa010fbc1d14c795d86ef98c95479d17, and the digest is the four words of s *)
(* in the order s[0..4], each little-endian.                               *)
(***************************************************************************)
\* the bytes of a digest of Md4
Md4_digest(o) ==
    SubSeq(Serialize(Md4_words(o.of.iv, o.of.absorbed), o.be), o.from + 1, o.to)

\* 31d6cfe0d16ae931b73c59d7e0c089c0
Md4OfEmpty ==
    <<49, 214, 207, 224, 209, 106, 233, 49, 183, 60, 89, 215, 224, 192, 137, 192>>

\* aa010fbc1d14c795d86ef98c95479d17
Md4OfHelloWorld ==
    <<170, 1, 15, 188, 29, 20, 199, 149, 216, 110, 249, 140, 149, 71, 157, 23>>

C12_Md4KnownAnswers ==
    (alg = "md4" /\ phase = "finalized" /\ prior = U64_0) =>
        /\ out = <<[of |-> core.s, from |-> 0, to |-> 16, be |-> FALSE]>>
        /\ core.s.iv = Md4_S
        /\ (msg = <<>>) => (Md4_digest(out[1]) = Md4OfEmpty)
        /\ (msg = HelloWorld) => (Md4_digest(out[1]) = Md4OfHelloWorld)

\* update(b"hello world") in one call, then finalize
C12_Witness ==
    /\ alg = "md4"
    /\ phase = "finalized"
    /\ msg = HelloWorld
    /\ updates = 1
    /\ resets = 0
    /\ Md4_digest(out[1]) = Md4OfHelloWorld

(***************************************************************************)
(* C13  Streebog's counter n, read as a 256-bit integer with n[0] least    *)
(* significant, is exact modulo 2^256: the k-th block of the stream is     *)
(* compressed under the key 8 * (bytes of blocks 1..k-1), and after it n   *)
(* is 8 * (bytes of blocks 1..k), with 64 bytes for a full block and the   *)
(* buffered position for the final block.                                  *)
(***************************************************************************)
\* the key of the k-th compression since the hasher's starting point
KeyOf(k) == MessageBits(prior, 64 * (k - 1), 32) \o Zeros(32)

C13_CounterExact ==
    (alg \in StreebogAlgs /\ phase \in {"live", "finalized"}) =>
        LET a == core.h.absorbed
            full == Len(msg) \div 64
            blocks == IF phase = "live" THEN full ELSE full + 1
            bytes == IF phase = "live" THEN 64 * full ELSE Len(msg)
        IN  /\ Len(a) = IF phase = "live" THEN full ELSE full + 3
            /\ \A k \in 1..blocks : a[k].N = KeyOf(k)
            /\ DigitsOfWords(core.n) = MessageBits(prior, bytes, 32)
            /\ Serialize(core.n, FALSE) = MessageBits(prior, bytes, 32)
            /\ (phase = "finalized") =>
                   a[full + 2].m = MessageBits(prior, Len(msg), 32) \o Zeros(32)

\* the counter has wrapped past 2^256 with a carry through all eight limbs,
\* and the stream went on to a final block of pos > 0 bytes
C13_Witness ==
    /\ alg \in StreebogAlgs
    /\ prior = P247
    /\ phase = "finalized"
    /\ Len(msg) > 64
    /\ pre[1].buf.pos > 0
    /\ pre[1].core.n = [i \in 1..8 |-> U32_0]
    /\ core.n[1] = Word(8 * pre[1].buf.pos, 2)

(***************************************************************************)
(* C14  Streebog's running sum sigma, read as a 512-bit little-endian      *)
(* integer, is the sum modulo 2^512 of the compressed blocks (the full     *)
(* blocks and the padded final block with its marker), each read the same  *)
(* way: every step adds exactly the blocks it compresses, a fresh hasher   *)
(* holds the sum of all of them, the carry out of byte 63 is dropped, and  *)
(* the carry variable stays within 16 bits.                                *)
(***************************************************************************)
\* s0 plus the blocks of the compressions listed, modulo 2^512
RECURSIVE SumOf(_, _)
SumOf(s0, items) ==
    IF items = <<>> THEN s0
    ELSE SumOf(DigitsAdd(s0, items[1].m, 0), Tail(items))

\* the compressions of message blocks among those of a chaining value: all
\* of them while live, all but the last two once finalized
BlocksIn(a, ph) == SubSeq(a, 1, IF ph = "finalized" THEN Len(a) - 2 ELSE Len(a))

SigmaOfAll ==
    (alg \in StreebogAlgs /\ prior = U64_0 /\ phase \in {"live", "finalized"}) =>
        core.sigma = SumOf(Zeros(64), BlocksIn(core.h.absorbed, phase))

SigmaCarries ==
    (alg \in StreebogAlgs /\ phase = "finalized") =>
        LET k == Len(pre[1].core.h.absorbed)
            block == core.h.absorbed[k + 1].m
            carries == Streebog_sigma_carries(pre[1].core.sigma, block, 1, 0)
        IN  /\ \A i \in 1..64 : carries[i] < Limb
            /\ core.sigma = [i \in 1..64 |-> carries[i] % Byte]
            /\ core.h.absorbed[k + 3].m = core.sigma

SigmaStep ==
    (alg \in StreebogAlgs /\ phase = "live" /\ phase' \in {"live", "finalized"}) =>
        LET old == Len(core.h.absorbed)
            new == BlocksIn(core'.h.absorbed, phase')
        IN  core'.sigma = SumOf(core.sigma, SubSeq(new, old + 1, Len(new)))

C14_SigmaExact == [](SigmaOfAll /\ SigmaCarries) /\ [][SigmaStep]_vars

\* a running sum of 2^512 - 1 took a full block, which carried out of byte
\* 63, and then the padded final block
C14_Witness ==
    /\ alg \in StreebogAlgs
    /\ prior = P23
    /\ phase = "finalized"
    /\ Len(msg) > 64
    /\ pre[1].buf.pos > 0
    /\ pre[1].core.sigma = DigitsAdd([i \in 1..64 |-> 255], Input(0, 64), 0)
    /\ core.sigma # pre[1].core.sigma

(***************************************************************************)
(* C15  Frame of finalize: once finalize_fixed_core of MD5, RIPEMD-160 or  *)
(* RIPEMD-320 has been entered the core (chaining words and block counter) *)
(* is what it was before the call, and so are Whirlpool's chaining words,  *)
(* while Whirlpool's bit_len has grown by the buffered bits; the digest is *)
(* taken from a copy of the chaining words into which the padding blocks   *)
(* were compressed.                                                        *)
(***************************************************************************)
LocalCopyAlgs == {"md5", "ripemd160", "ripemd320", "whirlpool"}

C15_FinalizeFrame ==
    (alg \in LocalCopyAlgs /\ pre # <<>>) =>
        LET before == pre[1].core
            words == ChainOf(alg, core)
        IN  /\ words = ChainOf(alg, before)
            /\ (alg # "whirlpool") => (core = before)
            /\ (alg = "whirlpool") =>
                   /\ DigitsOfWords(Reverse(core.bit_len)) =
                          DigitsAdd(DigitsOfWords(Reverse(before.bit_len)),
                                    DigitsOfNat(8 * pre[1].buf.pos, 32), 0)
                   /\ (pre[1].buf.pos > 0) => (core.bit_len # before.bit_len)
            /\ (phase = "finalized") =>
                   /\ Len(out[1].of.absorbed) > Len(words.absorbed)
                   /\ SubSeq(out[1].of.absorbed, 1, Len(words.absorbed)) =
                          words.absorbed
                   /\ [out[1].of EXCEPT !.absorbed = <<>>] =
                          [words EXCEPT !.absorbed = <<>>]

\* finalize of a core that had compressed a block, from a position that
\* takes two padding blocks
C15_Witness ==
    /\ alg \in LocalCopyAlgs
    /\ phase = "finalized"
    /\ pre[1].buf.pos > BlockSize(alg) - 8
    /\ Len(ChainOf(alg, core).absorbed) = 1
    /\ Len(out[1].of.absorbed) = 3
    /\ ChainOf(alg, core) = ChainOf(alg, pre[1].core)

====
